---- MODULE Spec2Model ----
(***************************************************************************)
(* A model of simd.py: the Shape S, the packed array A and its lane-wise  *)
(* operations.  Python's unbounded integers are TLC integers; the shapes  *)
(* are bounded so that every backing integer stays narrow.                *)
(*                                                                         *)
(* A client holds one array `a` of shape `s` (op = "new"), calls one      *)
(* operation of the library on it (op = the operation, b / xs = the       *)
(* argument, r = what the call returned or raised) and then goes on with  *)
(* either `a` or the returned array.                                      *)
(***************************************************************************)
EXTENDS Integers, Sequences, FiniteSets, TLC

\* ---- bounds of the model ----
MaxLen == 2
MaxBv == 2
MaxBp == 2
\* width of the backing integer: len * (bv + bp) <= MaxBits
MaxBits == 8
\* scalar operands range over -MaxScalar .. MaxScalar
MaxScalar == 4
\* shift counts range over -1 .. MaxShift
MaxShift == 3
\* elements given to from_iterable range over 0 .. MaxElem
MaxElem == 5

\* ---- Python's integer operators ----

\* x << n
Shl(x, n) == x * (2 ^ n)

\* x >> n  (floors, also for negative x)
Shr(x, n) == x \div (2 ^ n)

\* ~x
Not(x) == (0 - x) - 1

RECURSIVE BitAnd(_, _)
\* x & y on two's complement integers of unbounded width
BitAnd(x, y) ==
    IF x = 0 \/ y = 0 THEN 0
    ELSE IF x = 0 - 1 THEN y
    ELSE IF y = 0 - 1 THEN x
    ELSE (x % 2) * (y % 2) + 2 * BitAnd(x \div 2, y \div 2)

RECURSIVE BitOr(_, _)
\* x | y
BitOr(x, y) ==
    IF x = 0 THEN y
    ELSE IF y = 0 THEN x
    ELSE IF x = 0 - 1 \/ y = 0 - 1 THEN 0 - 1
    ELSE (IF x % 2 = 1 \/ y % 2 = 1 THEN 1 ELSE 0) + 2 * BitOr(x \div 2, y \div 2)

RECURSIVE BitXor(_, _)
\* x ^ y
BitXor(x, y) ==
    IF x = 0 THEN y
    ELSE IF y = 0 THEN x
    ELSE IF x = 0 - 1 THEN Not(y)
    ELSE IF y = 0 - 1 THEN Not(x)
    ELSE ((x + y) % 2) + 2 * BitXor(x \div 2, y \div 2)

\* ---- mask algebra ----

\* n one bits
mask(n) == Not(Shl(Not(0), n))

\* n items of bi bits, each 00..01
mask_array(n, w) == Not(Shl(Not(0), n * w)) \div Not(Shl(Not(0), w))

\* ---- class S ----

\* the assertions of S.__post_init__
__post_init__(sh) == sh.len >= 0 /\ sh.bv > 0 /\ sh.bp > 0

bi(sh) == sh.bp + sh.bv

maxval(sh) == mask(bi(sh))

S_mask(sh) == mask(bi(sh) * sh.len)

mask_array_val(sh) == mask_array(sh.len, bi(sh))

mask_val(sh) == mask_array_val(sh) * mask(sh.bv)

mask_array_pad(sh) == Shl(mask_array(sh.len, bi(sh)), sh.bv)

mask_pad(sh) == mask_array_pad(sh) * mask(sh.bp)

\* ---- what a call returns ----

\* a returned array
RetA(n) == [ok |-> TRUE, kind |-> "A", data |-> n, vals |-> <<>>, err |-> ""]

\* a returned int
RetInt(n) == [ok |-> TRUE, kind |-> "int", data |-> n, vals |-> <<>>, err |-> ""]

\* a returned list of ints
RetList(l) == [ok |-> TRUE, kind |-> "list", data |-> 0, vals |-> l, err |-> ""]

\* a raised exception
Raise(e) == [ok |-> FALSE, kind |-> "raise", data |-> 0, vals |-> <<>>, err |-> e]

\* ---- operands of the binary operators: an int or an array ----

IntArg(k) == [isint |-> TRUE, v |-> k, s |-> [len |-> 0, bv |-> 1, bp |-> 1]]

ArrArg(n, sh) == [isint |-> FALSE, v |-> n, s |-> sh]

NoArg == IntArg(0)

\* ---- class A: construction ----

__init__(data, sh) ==
    IF ~(data >= 0) THEN Raise("AssertionError: negative data")
    ELSE IF ~(data = BitAnd(data, mask_val(sh)))
         THEN Raise("AssertionError: padding bits are not cleared")
    ELSE RetA(data)

from_const(val, sh) ==
    IF ~(val >= 0) THEN Raise("AssertionError: negative value")
    ELSE __init__(mask_array_val(sh) * val, sh)

\* raises ValueError on two arrays of different shapes
_check_shape_compatibility(sh, other_sh) ==
    IF sh # other_sh THEN Raise("ValueError: incompatible shapes") ELSE RetInt(0)

\* the array an operand stands for
_get_binop_operand(other, sh) ==
    IF other.isint THEN from_const(other.v, sh)
    ELSE LET c == _check_shape_compatibility(sh, other.s)
         IN  IF ~c.ok THEN c ELSE RetA(other.v)

\* ---- class A: element access ----

_get_item(data, i, sh) ==
    IF i * bi(sh) < 0 THEN Raise("ValueError: negative shift count")
    ELSE RetInt(BitAnd(Shr(data, i * bi(sh)), mask(bi(sh))))

\* the pair (pad, val) as <<pad, val>> in vals
_get_padval(data, i, sh) ==
    LET item == _get_item(data, i, sh)
    IN  IF ~item.ok THEN item
        ELSE RetList(<<Shr(item.data, sh.bv), BitAnd(item.data, mask(sh.bv))>>)

__getitem__(data, index, sh) ==
    LET pv == _get_padval(data, index, sh)
    IN  IF ~pv.ok THEN pv ELSE RetInt(pv.vals[2])

__len__(data, sh) == RetInt(sh.len)

\* ---- strings of binary digits, most significant digit first ----

RECURSIVE bin(_)
\* bin(x)[2:] of an x >= 0
bin(x) == IF x < 2 THEN <<x>> ELSE Append(bin(x \div 2), x % 2)

\* str.zfill(width)
zfill(str, width) ==
    IF Len(str) >= width THEN str ELSE [j \in 1 .. (width - Len(str)) |-> 0] \o str

RECURSIVE join_reversed(_)
\* ''.join(reversed(strs))
join_reversed(strs) ==
    IF strs = <<>> THEN <<>> ELSE join_reversed(Tail(strs)) \o Head(strs)

RECURSIVE digits_value(_)
digits_value(str) ==
    IF str = <<>> THEN 0
    ELSE 2 * digits_value(SubSeq(str, 1, Len(str) - 1)) + str[Len(str)]

\* int(str, 2): the empty string is no number
int2(str) ==
    IF str = <<>> THEN Raise("ValueError: invalid literal for int() with base 2")
    ELSE RetInt(digits_value(str))

\* f'{data:0{nbits}b}' of a data >= 0
format_bin(data, nbits) == zfill(bin(data), nbits)

\* str[start:stop] with Python's treatment of negative and too large indices
slice(str, start, stop) ==
    LET n == Len(str)
        clip(k) == IF k < 0 THEN (IF k + n < 0 THEN 0 ELSE k + n)
                   ELSE IF k > n THEN n ELSE k
        lo == clip(start)
        hi == clip(stop)
    IN  IF hi <= lo THEN <<>> ELSE SubSeq(str, lo + 1, hi)

from_iterable(iterable, sh) ==
    LET vals1 == [j \in 1 .. Len(iterable) |-> bin(iterable[j])]
        vals2 == [j \in 1 .. Len(vals1) |-> zfill(vals1[j], bi(sh))]
        bits == join_reversed(vals2)
        n == int2(bits)
    IN  IF ~n.ok THEN n ELSE __init__(n.data, sh)

RECURSIVE _get_values_by_indices(_, _, _)
\* list(self._get_values_by_indices(indices))
_get_values_by_indices(data, indices, sh) ==
    IF indices = <<>> THEN RetList(<<>>)
    ELSE LET nbits == bi(sh) * sh.len
             bits == format_bin(data, nbits)
             i == Head(indices)
             x == slice(bits, (0 - (i + 1)) * bi(sh) + sh.bp, Len(bits) - i * bi(sh))
             v == int2(x)
             rest == _get_values_by_indices(data, Tail(indices), sh)
         IN  IF ~v.ok THEN v
             ELSE IF ~rest.ok THEN rest
             ELSE RetList(<<v.data>> \o rest.vals)

\* list(self)
__iter__(data, sh) ==
    _get_values_by_indices(data, [j \in 1 .. sh.len |-> j - 1], sh)

\* list(reversed(self))
__reversed__(data, sh) ==
    _get_values_by_indices(data, [j \in 1 .. sh.len |-> sh.len - j], sh)

\* ---- class A: lane-wise arithmetic ----
\* self is the data of the left array, other an operand (IntArg or ArrArg)

__add__(self, other, sh) ==
    LET o == _get_binop_operand(other, sh)
    IN  IF ~o.ok THEN o
        ELSE __init__(BitAnd(self + o.data, mask_val(sh)), sh)

__radd__(self, other, sh) == __add__(self, other, sh)

\* __sub__ without the 1 stored in each padding block
sub_without_reservoir(self, other, sh) ==
    LET o == _get_binop_operand(other, sh)
    IN  IF ~o.ok THEN o
        ELSE __init__(BitAnd(self - o.data, mask_val(sh)), sh)

__sub__(self, other, sh) ==
    LET o == _get_binop_operand(other, sh)
        n1 == BitOr(self, mask_array_pad(sh))
    IN  IF ~o.ok THEN o
        ELSE __init__(BitAnd(n1 - o.data, mask_val(sh)), sh)

__neg__(self, sh) == __init__(mask_array_pad(sh) - self, sh)

\* -self + other
__rsub__(self, other, sh) ==
    LET m == __neg__(self, sh)
    IN  IF ~m.ok THEN m ELSE __add__(m.data, other, sh)

RECURSIVE mul_loop_without_shift(_, _, _, _, _)
\* the loop of __mul__ without `b <<= i`
mul_loop_without_shift(i, n, n1, n2, sh) ==
    IF i >= sh.bv THEN n
    ELSE LET b1 == Shr(n2, i)
             b2 == BitAnd(b1, mask_array_val(sh))
             b3 == b2 * mask(sh.bv)
             b4 == BitAnd(b3, n1)
         IN  mul_loop_without_shift(i + 1, n + b4, n1, n2, sh)

RECURSIVE mul_loop(_, _, _, _, _)
\* the iterations i, i + 1, .. bv - 1 of the loop of __mul__, n the sum so far
mul_loop(i, n, n1, n2, sh) ==
    IF i >= sh.bv THEN n
    ELSE LET b1 == Shr(n2, i)
             b2 == BitAnd(b1, mask_array_val(sh))
             b3 == b2 * mask(sh.bv)
             b4 == BitAnd(b3, n1)
             b5 == Shl(b4, i)
         IN  mul_loop(i + 1, n + b5, n1, n2, sh)

\* __mul__ whose multiplication by an int leaves the padding unmasked
mul_scalar_unmasked(self, other, sh) ==
    IF other.isint
    THEN __init__(self * other.v, sh)
    ELSE LET c == _check_shape_compatibility(sh, other.s)
         IN  IF ~c.ok THEN c
             ELSE __init__(BitAnd(mul_loop(0, 0, self, other.v, sh), mask_val(sh)), sh)

__mul__(self, other, sh) ==
    IF other.isint
    THEN __init__(BitAnd(self * other.v, mask_val(sh)), sh)
    ELSE LET c == _check_shape_compatibility(sh, other.s)
         IN  IF ~c.ok THEN c
             ELSE __init__(BitAnd(mul_loop(0, 0, self, other.v, sh), mask_val(sh)), sh)

__rmul__(self, other, sh) == __mul__(self, other, sh)

\* ---- class A: bitwise operators ----

__and__(self, other, sh) ==
    LET o == _get_binop_operand(other, sh)
    IN  IF ~o.ok THEN o ELSE __init__(BitAnd(self, o.data), sh)

__rand__(self, other, sh) == __and__(self, other, sh)

__or__(self, other, sh) ==
    LET o == _get_binop_operand(other, sh)
    IN  IF ~o.ok THEN o ELSE __init__(BitOr(self, o.data), sh)

__ror__(self, other, sh) == __or__(self, other, sh)

__xor__(self, other, sh) ==
    LET o == _get_binop_operand(other, sh)
    IN  IF ~o.ok THEN o ELSE __init__(BitXor(self, o.data), sh)

__rxor__(self, other, sh) == __xor__(self, other, sh)

__rshift__(self, b, sh) ==
    IF b < 0 THEN Raise("ValueError: negative shift count")
    ELSE __init__(BitAnd(Shr(self, b), mask_val(sh)), sh)

__lshift__(self, b, sh) ==
    IF b < 0 THEN Raise("ValueError: negative shift count")
    ELSE __init__(BitAnd(Shl(self, b), mask_val(sh)), sh)

__invert__(self, sh) == __init__(BitXor(self, mask_val(sh)), sh)

\* ---- class A: lane-wise tests and comparisons ----

\* is_true isolating the last value bit instead of the first padding bit
is_true_last_value_bit(self, sh) ==
    LET n1 == BitOr(self, mask_array_pad(sh))
        n2 == n1 - mask_array_val(sh)
        n3 == Shr(n2, sh.bv - 1)
    IN  __init__(BitAnd(n3, mask_array_val(sh)), sh)

is_true(self, sh) ==
    LET n1 == BitOr(self, mask_array_pad(sh))
        n2 == n1 - mask_array_val(sh)
        n3 == Shr(n2, sh.bv)
    IN  __init__(BitAnd(n3, mask_array_val(sh)), sh)

is_false(self, sh) ==
    LET t == is_true(self, sh)
    IN  IF ~t.ok THEN t ELSE __init__(BitXor(t.data, mask_array_val(sh)), sh)

eq(self, other, sh) ==
    LET o == _get_binop_operand(other, sh)
    IN  IF ~o.ok THEN o
        ELSE LET x == __xor__(self, ArrArg(o.data, sh), sh)
             IN  IF ~x.ok THEN x ELSE is_false(x.data, sh)

ne(self, other, sh) ==
    LET o == _get_binop_operand(other, sh)
    IN  IF ~o.ok THEN o
        ELSE LET x == __xor__(self, ArrArg(o.data, sh), sh)
             IN  IF ~x.ok THEN x ELSE is_true(x.data, sh)

lt(self, other, sh) ==
    LET o == _get_binop_operand(other, sh)
    IN  IF ~o.ok THEN o
        ELSE LET d == __sub__(self, ArrArg(o.data, sh), sh)
             IN  IF ~d.ok THEN d
                 ELSE __init__(BitAnd(Shr(d.data, sh.bv - 1), mask_array_val(sh)), sh)

gt(self, other, sh) ==
    LET o == _get_binop_operand(other, sh)
    IN  IF ~o.ok THEN o
        ELSE LET d == __sub__(o.data, ArrArg(self, sh), sh)
             IN  IF ~d.ok THEN d
                 ELSE __init__(BitAnd(Shr(d.data, sh.bv - 1), mask_array_val(sh)), sh)

\* self.lt(other) | self.eq(other)
le(self, other, sh) ==
    LET l == lt(self, other, sh)
        e == eq(self, other, sh)
    IN  IF ~l.ok THEN l
        ELSE IF ~e.ok THEN e
        ELSE __or__(l.data, ArrArg(e.data, sh), sh)

\* self.gt(other) | self.eq(other)
ge(self, other, sh) ==
    LET g == gt(self, other, sh)
        e == eq(self, other, sh)
    IN  IF ~g.ok THEN g
        ELSE IF ~e.ok THEN e
        ELSE __or__(g.data, ArrArg(e.data, sh), sh)

\* ---- the client and its calls ----

VARIABLES
    s,   \* the shape of the client's array
    a,   \* the data of the client's array
    op,  \* "new": the client holds `a`; otherwise the operation it called
    b,   \* the operand, shift count or index of the call
    xs,  \* the iterable given to from_iterable
    r    \* what the call returned or raised

vars == <<s, a, op, b, xs, r>>

\* the shapes S(len=.., bv=.., bp=..) constructs, within the bounds
Shapes ==
    {sh \in [len : (0 - 1) .. MaxLen, bv : 0 .. MaxBv, bp : 0 .. MaxBp] :
        __post_init__(sh) /\ sh.len * bi(sh) <= MaxBits}

\* the data A(data, sh) accepts
Arrays(sh) == {d \in 0 .. (S_mask(sh) + 1) : __init__(d, sh).ok}

\* a shape other than sh
OtherShape(sh) == [sh EXCEPT !.bp = sh.bp + 1]

Scalars == (0 - MaxScalar) .. MaxScalar

IntArgs == {IntArg(k) : k \in Scalars}

ArrArgs == {ArrArg(d, s) : d \in Arrays(s)} \cup {ArrArg(0, OtherShape(s))}

BinArgs == ArrArgs \cup IntArgs

ShiftArgs == {IntArg(k) : k \in (0 - 1) .. MaxShift}

IndexArgs == {IntArg(k) : k \in (0 - 1) .. (MaxLen + 1)}

\* iterables of fewer, as many and more elements than the shape has lanes
Iterables == UNION {[1 .. n -> 0 .. MaxElem] : n \in 0 .. (s.len + 1)}

Init ==
    /\ s \in Shapes
    /\ a \in Arrays(s)
    /\ op = "new"
    /\ b = NoArg
    /\ xs = <<>>
    /\ r = __init__(a, s)

\* the client calls operation `name` with operand `arg` (and iterable `it`)
Call(name, arg, it, result) ==
    /\ op' = name
    /\ b' = arg
    /\ xs' = it
    /\ r' = result
    /\ UNCHANGED <<s, a>>

FromConst ==
    /\ op = "new"
    /\ \E o \in IntArgs : Call("from_const", o, <<>>, from_const(o.v, s))

FromIterable ==
    /\ op = "new"
    /\ \E it \in Iterables : Call("from_iterable", NoArg, it, from_iterable(it, s))

GetItem ==
    /\ op = "new"
    /\ \E o \in IndexArgs : Call("getitem", o, <<>>, __getitem__(a, o.v, s))

\* the client reads the property s.bi
BiOf ==
    /\ op = "new"
    /\ Call("bi", NoArg, <<>>, RetInt(bi(s)))

\* the client reads the property s.maxval
MaxvalOf ==
    /\ op = "new"
    /\ Call("maxval", NoArg, <<>>, RetInt(maxval(s)))

LenOf ==
    /\ op = "new"
    /\ Call("len", NoArg, <<>>, __len__(a, s))

Iter ==
    /\ op = "new"
    /\ Call("iter", NoArg, <<>>, __iter__(a, s))

Reversed ==
    /\ op = "new"
    /\ Call("reversed", NoArg, <<>>, __reversed__(a, s))

Add ==
    /\ op = "new"
    /\ \E o \in BinArgs : Call("add", o, <<>>, __add__(a, o, s))

RAdd ==
    /\ op = "new"
    /\ \E o \in IntArgs : Call("radd", o, <<>>, __radd__(a, o, s))

Sub ==
    /\ op = "new"
    /\ \E o \in BinArgs : Call("sub", o, <<>>, __sub__(a, o, s))

RSub ==
    /\ op = "new"
    /\ \E o \in IntArgs : Call("rsub", o, <<>>, __rsub__(a, o, s))

Mul ==
    /\ op = "new"
    /\ \E o \in BinArgs : Call("mul", o, <<>>, __mul__(a, o, s))

RMul ==
    /\ op = "new"
    /\ \E o \in IntArgs : Call("rmul", o, <<>>, __rmul__(a, o, s))

And ==
    /\ op = "new"
    /\ \E o \in BinArgs : Call("and", o, <<>>, __and__(a, o, s))

RAnd ==
    /\ op = "new"
    /\ \E o \in IntArgs : Call("rand", o, <<>>, __rand__(a, o, s))

Or ==
    /\ op = "new"
    /\ \E o \in BinArgs : Call("or", o, <<>>, __or__(a, o, s))

ROr ==
    /\ op = "new"
    /\ \E o \in IntArgs : Call("ror", o, <<>>, __ror__(a, o, s))

Xor ==
    /\ op = "new"
    /\ \E o \in BinArgs : Call("xor", o, <<>>, __xor__(a, o, s))

RXor ==
    /\ op = "new"
    /\ \E o \in IntArgs : Call("rxor", o, <<>>, __rxor__(a, o, s))

RShift ==
    /\ op = "new"
    /\ \E o \in ShiftArgs : Call("rshift", o, <<>>, __rshift__(a, o.v, s))

LShift ==
    /\ op = "new"
    /\ \E o \in ShiftArgs : Call("lshift", o, <<>>, __lshift__(a, o.v, s))

Invert ==
    /\ op = "new"
    /\ Call("invert", NoArg, <<>>, __invert__(a, s))

Neg ==
    /\ op = "new"
    /\ Call("neg", NoArg, <<>>, __neg__(a, s))

IsTrue ==
    /\ op = "new"
    /\ Call("is_true", NoArg, <<>>, is_true(a, s))

IsFalse ==
    /\ op = "new"
    /\ Call("is_false", NoArg, <<>>, is_false(a, s))

Eq ==
    /\ op = "new"
    /\ \E o \in BinArgs : Call("eq", o, <<>>, eq(a, o, s))

Ne ==
    /\ op = "new"
    /\ \E o \in BinArgs : Call("ne", o, <<>>, ne(a, o, s))

Lt ==
    /\ op = "new"
    /\ \E o \in BinArgs : Call("lt", o, <<>>, lt(a, o, s))

Gt ==
    /\ op = "new"
    /\ \E o \in BinArgs : Call("gt", o, <<>>, gt(a, o, s))

Le ==
    /\ op = "new"
    /\ \E o \in BinArgs : Call("le", o, <<>>, le(a, o, s))

Ge ==
    /\ op = "new"
    /\ \E o \in BinArgs : Call("ge", o, <<>>, ge(a, o, s))

\* the client goes on with the array it had
Keep ==
    /\ op # "new"
    /\ op' = "new"
    /\ b' = NoArg
    /\ xs' = <<>>
    /\ r' = __init__(a, s)
    /\ UNCHANGED <<s, a>>

\* the client goes on with the array the call returned
Rebind ==
    /\ op # "new"
    /\ r.ok /\ r.kind = "A"
    /\ a' = r.data
    /\ op' = "new"
    /\ b' = NoArg
    /\ xs' = <<>>
    /\ r' = __init__(r.data, s)
    /\ UNCHANGED s

Next ==
    \/ BiOf \/ MaxvalOf
    \/ FromConst \/ FromIterable
    \/ GetItem \/ LenOf \/ Iter \/ Reversed
    \/ Add \/ RAdd \/ Sub \/ RSub \/ Mul \/ RMul
    \/ And \/ RAnd \/ Or \/ ROr \/ Xor \/ RXor
    \/ RShift \/ LShift \/ Invert \/ Neg
    \/ IsTrue \/ IsFalse
    \/ Eq \/ Ne \/ Lt \/ Gt \/ Le \/ Ge
    \/ Keep \/ Rebind

Spec == Init /\ [][Next]_vars

TypeOK ==
    /\ s \in Shapes
    /\ __init__(a, s).ok
    /\ r.ok \in BOOLEAN

\* ---- reading an array lane by lane, by arithmetic alone ----

Lanes == 0 .. (s.len - 1)

\* the bi bits of lane i of data d
Lane(d, i) == (d \div (2 ^ (i * (s.bv + s.bp)))) % (2 ^ (s.bv + s.bp))

\* the value bits of lane i
LaneVal(d, i) == Lane(d, i) % (2 ^ s.bv)

\* the padding bits of lane i
LanePad(d, i) == Lane(d, i) \div (2 ^ s.bv)

\* d is nonnegative, has no bit beyond the last lane and no padding bit set
WellFormed(d) ==
    /\ d >= 0
    /\ d < 2 ^ (s.len * (s.bv + s.bp))
    /\ \A i \in Lanes : LanePad(d, i) = 0

\* the call returned a well-formed array
ReturnedArray == r.ok /\ r.kind = "A" /\ WellFormed(r.data)

\* the operand of the call is an array of the client's shape
ArrayOperand == ~b.isint /\ b.s = s

\* C1: for two well-formed arrays a, b of one shape, a + b and a - b are
\* well-formed arrays whose lane i holds (a[i] + b[i]) mod 2^bv and
\* (a[i] - b[i]) mod 2^bv: no carry or borrow reaches a neighbouring lane.
C1_AddSubLanewise ==
    (op \in {"add", "sub"} /\ ArrayOperand) =>
        /\ ReturnedArray
        /\ \A i \in Lanes :
              LaneVal(r.data, i) =
                  IF op = "add"
                  THEN (LaneVal(a, i) + LaneVal(b.v, i)) % (2 ^ s.bv)
                  ELSE (LaneVal(a, i) + (2 ^ s.bv) - LaneVal(b.v, i)) % (2 ^ s.bv)

\* a subtraction whose lane 0 borrows while lane 1 does not
C1_Witness ==
    /\ op = "sub" /\ ArrayOperand /\ r.ok
    /\ s.len >= 2
    /\ LaneVal(a, 0) < LaneVal(b.v, 0)
    /\ LaneVal(a, 1) > LaneVal(b.v, 1)
    /\ LaneVal(r.data, 1) = LaneVal(a, 1) - LaneVal(b.v, 1)

\* C5: for a shape with bp >= bv, array-by-array multiplication yields
\* (a[i] * b[i]) mod 2^bv in every lane i, no partial product spilling
\* into a neighbouring lane.
C5_MulLanewise ==
    (op = "mul" /\ ArrayOperand /\ s.bp >= s.bv) =>
        /\ ReturnedArray
        /\ \A i \in Lanes :
              LaneVal(r.data, i) = (LaneVal(a, i) * LaneVal(b.v, i)) % (2 ^ s.bv)

\* a product that overflows the value bits of lane 0, below a lane that is not zero
C5_Witness ==
    /\ op = "mul" /\ ArrayOperand /\ s.bp >= s.bv /\ r.ok
    /\ s.len >= 2 /\ s.bv >= 2
    /\ LaneVal(a, 0) * LaneVal(b.v, 0) >= 2 ^ s.bv
    /\ LaneVal(r.data, 1) # 0

\* C9: is_true()[i] is 1 if a[i] # 0 and 0 if a[i] = 0, is_false() is its
\* lane-wise complement: is_true().data ^ is_false().data = mask_array_val,
\* and every lane of both holds only 0 or 1.
C9_ZeroTest ==
    (op \in {"is_true", "is_false"}) =>
        /\ ReturnedArray
        /\ \A i \in Lanes :
              LaneVal(r.data, i) =
                  IF (LaneVal(a, i) # 0) = (op = "is_true") THEN 1 ELSE 0
        /\ LET other == IF op = "is_true" THEN is_false(a, s) ELSE is_true(a, s)
           IN  other.ok /\ BitXor(r.data, other.data) = mask_array_val(s)

\* is_true of an array with a zero lane 0 below a nonzero lane 1
C9_Witness ==
    /\ op = "is_true" /\ r.ok
    /\ s.len >= 2
    /\ LaneVal(a, 0) = 0 /\ LaneVal(a, 1) # 0
    /\ LaneVal(r.data, 0) = 0 /\ LaneVal(r.data, 1) = 1

\* ---- the operations by name, on an array operand ----

ArrayOps ==
    {"add", "sub", "mul", "and", "or", "xor", "eq", "ne", "lt", "gt", "le", "ge"}

UnaryOps == {"neg", "invert", "is_true", "is_false"}

ShiftOps == {"lshift", "rshift"}

\* x <name> o, as the operator the client's call of that name runs
BinOp(name, x, o) ==
    CASE name = "add" -> __add__(x, o, s)
      [] name = "sub" -> __sub__(x, o, s)
      [] name = "mul" -> __mul__(x, o, s)
      [] name = "and" -> __and__(x, o, s)
      [] name = "or" -> __or__(x, o, s)
      [] name = "xor" -> __xor__(x, o, s)
      [] name = "eq" -> eq(x, o, s)
      [] name = "ne" -> ne(x, o, s)
      [] name = "lt" -> lt(x, o, s)
      [] name = "gt" -> gt(x, o, s)
      [] name = "le" -> le(x, o, s)
      [] name = "ge" -> ge(x, o, s)

\* C2: every operation among add, sub, mul, neg, invert, and, or, xor,
\* lshift/rshift (shift count >= 0), is_true, is_false, eq, ne, lt, gt, le, ge
\* on well-formed operands of one shape returns a well-formed array: none
\* trips the constructor's padding check.
C2_WellFormedPreserved ==
    (\/ op \in ArrayOps /\ ArrayOperand
     \/ op \in UnaryOps
     \/ op \in ShiftOps /\ b.v >= 0) => ReturnedArray

\* C3: lt and gt are unsigned bv-bit comparisons over the full value range:
\* a.lt(b)[i] = 1 iff a[i] < b[i], a.gt(b)[i] = 1 iff a[i] > b[i]
\* (and le, ge flag a[i] <= b[i], a[i] >= b[i]).
C3_UnsignedCompare ==
    (op \in {"lt", "gt", "le", "ge"} /\ ArrayOperand) =>
        /\ ReturnedArray
        /\ \A i \in Lanes :
              LET x == LaneVal(a, i)
                  y == LaneVal(b.v, i)
                  holds == CASE op = "lt" -> x < y
                             [] op = "gt" -> x > y
                             [] op = "le" -> x <= y
                             [] op = "ge" -> x >= y
              IN  LaneVal(r.data, i) = IF holds THEN 1 ELSE 0

\* C4: in every lane exactly one of a.lt(b), a.eq(b), a.gt(b) is 1 and the
\* other two are 0.
C4_Trichotomy ==
    (op \in {"lt", "eq", "gt"} /\ ArrayOperand) =>
        LET l == IF op = "lt" THEN r ELSE lt(a, b, s)
            e == IF op = "eq" THEN r ELSE eq(a, b, s)
            g == IF op = "gt" THEN r ELSE gt(a, b, s)
        IN  /\ l.ok /\ e.ok /\ g.ok
            /\ \A i \in Lanes :
                  /\ {LaneVal(l.data, i), LaneVal(e.data, i), LaneVal(g.data, i)} = {0, 1}
                  /\ LaneVal(l.data, i) + LaneVal(e.data, i) + LaneVal(g.data, i) = 1

\* C6: for every valid shape (len = 0 included) and every sequence xs of
\* exactly len integers in 0 .. 2^bv - 1, from_iterable(xs, s) succeeds and
\* iterating the result yields xs in the same order.
C6_RoundTrip ==
    (/\ op = "from_iterable"
     /\ Len(xs) = s.len
     /\ \A j \in 1 .. Len(xs) : xs[j] <= (2 ^ s.bv) - 1) =>
        /\ ReturnedArray
        /\ __iter__(r.data, s) = RetList(xs)

\* C7: from_iterable fails on every sequence of nonnegative integers with an
\* element that does not fit in bv bits.
C7_NeverWraps ==
    (/\ op = "from_iterable"
     /\ \E j \in 1 .. Len(xs) : xs[j] >= 2 ^ s.bv) => ~r.ok

\* C8: a[i] returns (data >> (i*bi)) & mask(bv) when 0 <= i < len and fails
\* for every i < 0 and every i >= len.
C8_BoundsChecked ==
    (op = "getitem") =>
        IF 0 <= b.v /\ b.v < s.len
        THEN r.ok /\ r.kind = "int" /\ r.data = LaneVal(a, b.v)
        ELSE ~r.ok

\* two calls end alike: the same returned value, or both raise
SameOutcome(r1, r2) ==
    /\ r1.ok = r2.ok
    /\ r1.ok => (r1.kind = r2.kind /\ r1.data = r2.data)

\* from_const(k, s) <name> x, or what from_const raised
BroadcastLeft(name, k, x) ==
    LET c == from_const(k, s)
    IN  IF ~c.ok THEN c ELSE BinOp(name, c.data, ArrArg(x, s))

\* x <name> from_const(k, s), or what from_const raised
BroadcastRight(name, x, k) ==
    LET c == from_const(k, s)
    IN  IF ~c.ok THEN c ELSE BinOp(name, x, ArrArg(c.data, s))

\* C10: for every integer k, `a op k` has the outcome of `a op from_const(k, s)`
\* for op among add, sub, mul, and, or, xor, eq, ne, lt, gt, le, ge, and
\* k + a, k - a, k * a, k & a, k | a, k ^ a have the outcome of
\* `from_const(k, s) op a`: the same array, or a failure in both.
C10_ScalarIsBroadcast ==
    /\ (op \in ArrayOps /\ b.isint) => SameOutcome(r, BroadcastRight(op, a, b.v))
    /\ (op = "radd") => SameOutcome(r, BroadcastLeft("add", b.v, a))
    /\ (op = "rsub") => SameOutcome(r, BroadcastLeft("sub", b.v, a))
    /\ (op = "rmul") => SameOutcome(r, BroadcastLeft("mul", b.v, a))
    /\ (op = "rand") => SameOutcome(r, BroadcastLeft("and", b.v, a))
    /\ (op = "ror") => SameOutcome(r, BroadcastLeft("or", b.v, a))
    /\ (op = "rxor") => SameOutcome(r, BroadcastLeft("xor", b.v, a))

\* C11: for every valid shape s, s.maxval is 2^bv - 1, the largest value one
\* lane can hold (the per-lane value of mask_val), and s.bi is bp + bv.
C11_MaxvalAndBi ==
    /\ (op = "maxval") =>
          /\ r.ok /\ r.data = (2 ^ s.bv) - 1
          /\ \A i \in Lanes : r.data = LaneVal(mask_val(s), i)
    /\ (op = "bi") => (r.ok /\ r.data = s.bp + s.bv)

\* the int k of the call is nonnegative and the padding bounds its carry
CarryBounded == b.isint /\ b.v >= 0 /\ b.v * ((2 ^ s.bv) - 1) < 2 ^ (s.bv + s.bp)

\* C12: for every integer k >= 0 with k * (2^bv - 1) < 2^bi (which every
\* k <= 2^bp satisfies), (a * k)[i] = (a[i] * k) mod 2^bv in every lane i,
\* and k * a gives the same array.
C12_ScalarMulLanewise ==
    (op \in {"mul", "rmul"} /\ CarryBounded) =>
        /\ ReturnedArray
        /\ \A i \in Lanes : LaneVal(r.data, i) = (LaneVal(a, i) * b.v) % (2 ^ s.bv)
        /\ r = __mul__(a, b, s) /\ r = __rmul__(a, b, s)

\* a * k whose lane 0 carries into its padding, below a lane that is not zero
C12_Witness ==
    /\ op = "mul" /\ CarryBounded /\ r.ok
    /\ s.len >= 2 /\ b.v >= 2
    /\ LaneVal(a, 0) * b.v >= 2 ^ s.bv
    /\ LaneVal(r.data, 1) # 0
====
